---- MODULE Spec2Model ----
(***************************************************************************)
(* A model of the measurement session of probe-cli's engine package        *)
(* (Session, in session.go): the tunnel triple {proxyURL, tunnel,          *)
(* tunnelName}, the cached location, the probe-service selection and the   *)
(* operations that change them.  Every exported operation of the session   *)
(* is one action; nested calls are composed as operators on the session    *)
(* record, in the order the code makes them.                               *)
(***************************************************************************)
EXTENDS Integers, Sequences, FiniteSets, TLC

VARIABLES
    sess,           \* the Session struct
    tempDirExists,  \* whether the session's temporary directory is on disk
    tunnelStops,    \* how many times Tunnel.Stop was invoked on sess.tunnel
    closeCalls,     \* how many times Close was called
    tryAllCount,    \* how many times probeservices.TryAll was run
    stream,         \* a tactics stream and what its reader received
    threads,        \* concurrent callers of the session and the two mutexes
    last            \* the call that returned last: arguments, result, effects

vars ==
    <<sess, tempDirExists, tunnelStops, closeCalls, tryAllCount, stream,
      threads, last>>

----------------------------------------------------------------------------
(* Bounds of the model *)

\* cap on the number of probe-service selection attempts
MaxQueries == 2
\* cap on the number of Close calls
MaxClose == 2
\* the durations a benchmark may report are 1..MaxDuration
MaxDuration == 2
\* cap on the number of candidates SelectBest is applied to
MaxCandidates == 3
\* cap on the number of addresses the resolver returns for a domain
MaxAddrs == 2
\* cap on the number of calls each concurrent caller makes
MaxCalls == 2
\* cap on the number of tactics a policy has to send
MaxTactics == 3

----------------------------------------------------------------------------
(* Values *)

\* Go's nil for the values modelled as strings (a *url.URL, an error)
Nil == "nil"

\* Go's nil for the values modelled as records (a pointer to a struct, an
\* interface holding an object, a map)
NilRef == [nil |-> TRUE]

\* context.Context: live, or already cancelled when the call is entered
Ctxs == {"live", "cancelled"}

\* ctx.Err()
CtxErr(ctx) == IF ctx = "cancelled" THEN "context canceled" ELSE Nil

ErrAlreadyUsingProxy == "session: cannot create a new tunnel of this kind: we are already using a proxy"

ErrAllProbeServicesFailed == "all available probe services failed"

\* the errors of the collaborators
ErrTunnelStart == "tunnel start failed"
ErrLookupLocation == "location lookup failed"
ErrNewClient == "probe services: unsupported endpoint"
ErrCheckInAPI == "check-in API failed"

\* SessionConfig.ProxyURL: nil, or the caller's proxy
ConfigProxyURL == "socks5://caller-proxy:9050/"
ConfigProxyURLs == {Nil, ConfigProxyURL}

\* the tunnel names a caller may ask for
TunnelNames == {"tor", "psiphon"}
Names == {""} \cup TunnelNames

----------------------------------------------------------------------------
(* What a method returns.  A method of the session is an operator from the  *)
(* session and the arguments to the SET of its possible results: the calls  *)
(* it makes to its collaborators (the tunnel, the location task, the        *)
(* benchmarks, the probe-services client) are where the choice comes from.  *)

\* what a call did besides changing the session
\* (selected: the candidate a selection chose; trace: the collaborators
\* called, in the order of the calls)
NoFx == [starts |-> 0, lookups |-> 0, resolverLookup |-> FALSE, tryAlls |-> 0,
         newClients |-> 0, apiCalls |-> 0, selected |-> NilRef,
         trace |-> <<>>]

\* adds up what two nested calls did
AddFx(a, b) ==
    [starts |-> a.starts + b.starts,
     lookups |-> a.lookups + b.lookups,
     resolverLookup |-> a.resolverLookup \/ b.resolverLookup,
     tryAlls |-> a.tryAlls + b.tryAlls,
     newClients |-> a.newClients + b.newClients,
     apiCalls |-> a.apiCalls + b.apiCalls,
     selected |-> IF a.selected # NilRef THEN a.selected ELSE b.selected,
     trace |-> a.trace \o b.trace]

\* one result of a method: the session after it, its error, what it did
Ret(s, err, fx) == [sess |-> s, err |-> err, fx |-> fx]

----------------------------------------------------------------------------
(* The tunnel package, as the session uses it *)

\* Tunnel.SOCKS5ProxyURL(): the local SOCKS5 endpoint of a started tunnel
SOCKS5ProxyURL(t) == "socks5://127.0.0.1/" \o t.name

\* What tunnel.Start(ctx, Config{Name: name}) may return: no tunnel and no
\* error for the empty name; otherwise a started tunnel, or an error
TunnelStart(ctx, name) ==
    IF name = ""
    THEN {[tunnel |-> NilRef, err |-> Nil]}
    ELSE {[tunnel |-> [name |-> name], err |-> Nil],
          [tunnel |-> NilRef, err |-> ErrTunnelStart]}

----------------------------------------------------------------------------
(* Session.MaybeStartTunnel *)

\* a slip: the check of the running tunnel's name left out
SameTunnelRunning_Never(s, name) == FALSE

\* a tunnel with the name asked for is already running
SameTunnelRunning(s, name) == s.tunnel # NilRef /\ s.tunnelName = name

\* a slip: the check of the caller's proxy left out
ProxyAndNoTunnelAsked_Never(s, name) == FALSE

\* the caller configured a proxy and asks for no tunnel
ProxyAndNoTunnelAsked(s, name) == s.proxyURL # Nil /\ name = ""

\* a slip: the check of the conflict left out
AlreadyUsingProxy_Never(s) == FALSE

\* a slip: only the tunnel checked, not the proxy
AlreadyUsingProxy_TunnelOnly(s) == s.tunnel # NilRef

\* there is a proxy already, or another tunnel
AlreadyUsingProxy(s) == s.proxyURL # Nil \/ s.tunnel # NilRef

\* a slip: the name of the tunnel not stored
StoreTunnel_NoName(s, name, tunnel) ==
    [s EXCEPT !.tunnel = tunnel, !.proxyURL = SOCKS5ProxyURL(tunnel)]

\* a slip: the proxy URL of the tunnel not stored
StoreTunnel_NoProxyURL(s, name, tunnel) ==
    [s EXCEPT !.tunnelName = name, !.tunnel = tunnel]

\* the session with the started tunnel, its name and its proxy URL stored
StoreTunnel(s, name, tunnel) ==
    [s EXCEPT !.tunnelName = name,
              !.tunnel = tunnel,
              !.proxyURL = SOCKS5ProxyURL(tunnel)]

\* Session.MaybeStartTunnel
MaybeStartTunnel(s, ctx, name) ==
    IF SameTunnelRunning(s, name)
    THEN {Ret(s, Nil, NoFx)}
    ELSE IF ProxyAndNoTunnelAsked(s, name)
    THEN {Ret(s, Nil, NoFx)}
    ELSE IF AlreadyUsingProxy(s)
    THEN {Ret(s, ErrAlreadyUsingProxy, NoFx)}
    ELSE LET fx == [NoFx EXCEPT !.starts = 1, !.trace = <<"tunnel.Start">>]
         IN  {IF st.err # Nil
              THEN Ret(s, st.err, fx)
              ELSE IF st.tunnel = NilRef
              THEN Ret(s, Nil, fx)
              ELSE Ret(StoreTunnel(s, name, st.tunnel), Nil, fx)
                : st \in TunnelStart(ctx, name)}

\* Session.ProxyURL
ProxyURL(s) == s.proxyURL

----------------------------------------------------------------------------
(* The geolocate package, as the session uses it *)

DefaultProbeASN == 0
DefaultProbeCC == "ZZ"
DefaultProbeIP == "127.0.0.1"
DefaultProbeNetworkName == ""
DefaultResolverASN == 0
DefaultResolverIP == "127.0.0.2"
DefaultResolverNetworkName == ""

\* what the probe-side lookups of a location task may find
ProbeIdentities ==
    {[ASN |-> 30722, CountryCode |-> "IT", NetworkName |-> "Vodafone Italia",
      ProbeIP |-> "93.147.252.33"],
     [ASN |-> 7922, CountryCode |-> "US", NetworkName |-> "Comcast",
      ProbeIP |-> "73.14.61.2"]}

\* what the resolver-side lookup of a location task finds
ResolverIdentity ==
    [ResolverASN |-> 15169, ResolverIP |-> "8.8.8.8",
     ResolverNetworkName |-> "Google LLC"]

\* geolocate.Task.Run with Config.EnableResolverLookup = enable: an error, or
\* the results; the resolver fields keep their defaults when the resolver
\* lookup is disabled
TaskRun(ctx, enable) ==
    {[results |-> NilRef, err |-> ErrLookupLocation, resolverLookup |-> enable]}
    \cup {[results |->
            [ASN |-> p.ASN,
             CountryCode |-> p.CountryCode,
             NetworkName |-> p.NetworkName,
             ProbeIP |-> p.ProbeIP,
             ResolverASN |->
                IF enable THEN ResolverIdentity.ResolverASN
                ELSE DefaultResolverASN,
             ResolverIP |->
                IF enable THEN ResolverIdentity.ResolverIP
                ELSE DefaultResolverIP,
             ResolverNetworkName |->
                IF enable THEN ResolverIdentity.ResolverNetworkName
                ELSE DefaultResolverNetworkName],
           err |-> Nil, resolverLookup |-> enable] : p \in ProbeIdentities}

----------------------------------------------------------------------------
(* Session: the location *)

\* a slip: the resolver lookup is enabled whatever the proxy
LookupLocationContext_AlwaysResolver(s, ctx) == TaskRun(ctx, TRUE)

\* Session.LookupLocationContext: the resolver lookup is enabled only when
\* the session has no proxy
LookupLocationContext(s, ctx) == TaskRun(ctx, s.proxyURL = Nil)

\* Session.lookupLocationContext: the test hook is nil in a session made by
\* NewSession
lookupLocationContext(s, ctx) == LookupLocationContext(s, ctx)

\* what a run of the location task did
LookupFx(r) ==
    [NoFx EXCEPT !.lookups = 1, !.resolverLookup = r.resolverLookup,
                 !.trace = <<"geolocate.Task.Run">>]

\* a slip: MaybeLookupLocationContext without the check of the cached location
MaybeLookupLocationContext_NoCache(s, ctx) ==
    IF CtxErr(ctx) # Nil
    THEN {Ret(s, CtxErr(ctx), NoFx)}
    ELSE {IF r.err # Nil
          THEN Ret(s, r.err, LookupFx(r))
          ELSE Ret([s EXCEPT !.location = r.results], Nil, LookupFx(r))
            : r \in lookupLocationContext(s, ctx)}

\* a slip: MaybeLookupLocationContext without the check of the context
MaybeLookupLocationContext_NoCtxCheck(s, ctx) ==
    IF s.location = NilRef
    THEN {IF r.err # Nil
          THEN Ret(s, r.err, LookupFx(r))
          ELSE Ret([s EXCEPT !.location = r.results], Nil, LookupFx(r))
            : r \in lookupLocationContext(s, ctx)}
    ELSE {Ret(s, Nil, NoFx)}

\* Session.MaybeLookupLocationContext
MaybeLookupLocationContext(s, ctx) ==
    IF CtxErr(ctx) # Nil
    THEN {Ret(s, CtxErr(ctx), NoFx)}
    ELSE IF s.location = NilRef
    THEN {IF r.err # Nil
          THEN Ret(s, r.err, LookupFx(r))
          ELSE Ret([s EXCEPT !.location = r.results], Nil, LookupFx(r))
            : r \in lookupLocationContext(s, ctx)}
    ELSE {Ret(s, Nil, NoFx)}

\* a slip: the lookup is skipped
maybeLookupLocationContext_Skip(s, ctx) == {Ret(s, Nil, NoFx)}

\* Session.maybeLookupLocationContext (the test hook is nil)
maybeLookupLocationContext(s, ctx) == MaybeLookupLocationContext(s, ctx)

\* Session.MaybeLookupLocation
MaybeLookupLocation(s) == MaybeLookupLocationContext(s, "live")

----------------------------------------------------------------------------
(* The probeservices package, as the session uses it *)

\* probeservices.Default(): the compiled-in probe services
DefaultProbeServices ==
    <<[Address |-> "https://ps1.ooni.io", Type |-> "https"],
      [Address |-> "https://dkyhjv0wpi2dk.cloudfront.net", Type |-> "cloudfront"]>>

\* SessionConfig.AvailableProbeServices: empty, or the caller's list
ConfigProbeServices ==
    {<<>>, <<[Address |-> "https://ams-pg.ooni.org", Type |-> "https"]>>}

\* the test helpers a probe service may announce: none (a nil map), or some
TestHelperMaps ==
    {NilRef,
     [web_connectivity |-> <<[Address |-> "https://wcth.ooni.io", Type |-> "https"]>>]}

\* what the benchmark of one endpoint may yield on the network: a failure or
\* a success, after some time
BenchmarkOutcomes ==
    {[Duration |-> d, Err |-> "EOF", TestHelpers |-> NilRef] :
        d \in 1..MaxDuration}
    \cup {[Duration |-> d, Err |-> Nil, TestHelpers |-> th] :
            d \in 1..MaxDuration, th \in TestHelperMaps}

\* the benchmarks of a list of endpoints, one outcome for each
BenchmarkRuns(services) == [1..Len(services) -> BenchmarkOutcomes]

\* probeservices.TryAll: one candidate per endpoint, in the order given; a
\* benchmark made with a cancelled context fails with the context's error
TryAll(ctx, services, run) ==
    [i \in 1..Len(services) |->
        IF CtxErr(ctx) # Nil
        THEN [Endpoint |-> services[i], Duration |-> run[i].Duration,
              Err |-> CtxErr(ctx), TestHelpers |-> NilRef]
        ELSE [Endpoint |-> services[i], Duration |-> run[i].Duration,
              Err |-> run[i].Err, TestHelpers |-> run[i].TestHelpers]]

\* a slip: a later candidate replaces one that was as fast
Faster_OrAsFast(e, selected) == e.Duration <= selected.Duration

\* the candidate e took less time than the one selected so far
Faster(e, selected) == e.Duration < selected.Duration

RECURSIVE SelectBestFrom(_, _, _)
\* the scan of SelectBest from the candidate i on: a candidate with an error
\* is skipped, the first one without error is selected, and a later one
\* replaces the selected one when it was faster
SelectBestFrom(candidates, i, selected) ==
    IF i > Len(candidates)
    THEN selected
    ELSE IF candidates[i].Err # Nil
    THEN SelectBestFrom(candidates, i + 1, selected)
    ELSE IF selected = NilRef
    THEN SelectBestFrom(candidates, i + 1, candidates[i])
    ELSE IF Faster(candidates[i], selected)
    THEN SelectBestFrom(candidates, i + 1, candidates[i])
    ELSE SelectBestFrom(candidates, i + 1, selected)

\* probeservices.SelectBest: the candidate without error whose Duration is
\* smallest, the lowest index winning ties; nil when every candidate failed
SelectBest(candidates) == SelectBestFrom(candidates, 1, NilRef)

\* what probeservices.NewClient(sess, endpoint) may return: a client for the
\* endpoint, or an error
NewClient(s, endpoint) ==
    {[client |-> [endpoint |-> endpoint], err |-> Nil],
     [client |-> NilRef, err |-> ErrNewClient]}

\* what Client.CheckIn(ctx, config) may return
ClientCheckIn(ctx, config) == {Nil, ErrCheckInAPI}

----------------------------------------------------------------------------
(* Session: the probe services *)

\* Session.getAvailableProbeServicesUnlocked
getAvailableProbeServicesUnlocked(s) ==
    IF Len(s.availableProbeServices) > 0
    THEN s.availableProbeServices
    ELSE DefaultProbeServices

\* the effect fx of a selection that chose the candidate selected
Selected(fx, selected) ==
    [fx EXCEPT !.selected = [Endpoint |-> selected.Endpoint,
                             TestHelpers |-> selected.TestHelpers]]

\* a slip: the endpoint is stored and the test helpers are forgotten
StoreSelection_EndpointOnly(s, selected) ==
    [s EXCEPT !.selectedProbeService = selected.Endpoint]

\* the assignments of the selected candidate to the session
StoreSelection(s, selected) ==
    [s EXCEPT !.selectedProbeService = selected.Endpoint,
              !.availableTestHelpers = selected.TestHelpers]

\* a slip: MaybeLookupBackendsContext counting the query before the check of
\* the cached selection
MaybeLookupBackendsContext_CountFirst(s, ctx) ==
    LET s1 == [s EXCEPT !.queryProbeServicesCount = @ + 1]
        services == getAvailableProbeServicesUnlocked(s1)
        fx == [NoFx EXCEPT !.tryAlls = 1, !.trace = <<"probeservices.TryAll">>]
    IN  IF s.selectedProbeService # NilRef
        THEN {Ret(s1, Nil, NoFx)}
        ELSE {LET selected == SelectBest(TryAll(ctx, services, run))
              IN  IF selected = NilRef
                  THEN Ret(s1, ErrAllProbeServicesFailed, fx)
                  ELSE Ret(StoreSelection(s1, selected), Nil,
                           Selected(fx, selected))
                : run \in BenchmarkRuns(services)}

\* Session.MaybeLookupBackendsContext
MaybeLookupBackendsContext(s, ctx) ==
    IF s.selectedProbeService # NilRef
    THEN {Ret(s, Nil, NoFx)}
    ELSE LET s1 == [s EXCEPT !.queryProbeServicesCount = @ + 1]
             services == getAvailableProbeServicesUnlocked(s1)
             fx == [NoFx EXCEPT !.tryAlls = 1, !.trace = <<"probeservices.TryAll">>]
         IN  {LET selected == SelectBest(TryAll(ctx, services, run))
              IN  IF selected = NilRef
                  THEN Ret(s1, ErrAllProbeServicesFailed, fx)
                  ELSE Ret(StoreSelection(s1, selected), Nil,
                           Selected(fx, selected))
                : run \in BenchmarkRuns(services)}

\* Session.maybeLookupBackendsContext (the test hook is nil)
maybeLookupBackendsContext(s, ctx) == MaybeLookupBackendsContext(s, ctx)

\* Session.MaybeLookupBackends
MaybeLookupBackends(s) == MaybeLookupBackendsContext(s, "live")

\* one result of a method that also returns a client
RetClient(s, err, fx, client) ==
    [sess |-> s, err |-> err, fx |-> fx, client |-> client]

\* Session.NewProbeServicesClient
NewProbeServicesClient(s, ctx) ==
    IF CtxErr(ctx) # Nil
    THEN {RetClient(s, CtxErr(ctx), NoFx, NilRef)}
    ELSE UNION {
        IF b.err # Nil
        THEN {RetClient(b.sess, b.err, b.fx, NilRef)}
        ELSE UNION {
            IF l.err # Nil
            THEN {RetClient(l.sess, l.err, AddFx(b.fx, l.fx), NilRef)}
            ELSE {RetClient(l.sess, c.err,
                            [AddFx(b.fx, l.fx) EXCEPT
                                !.newClients = 1,
                                !.trace = @ \o <<"probeservices.NewClient">>],
                            c.client)
                    : c \in NewClient(l.sess, l.sess.selectedProbeService)}
            : l \in maybeLookupLocationContext(b.sess, ctx)}
        : b \in maybeLookupBackendsContext(s, ctx)}

\* Session.newProbeServicesClientForCheckIn (the test hook is nil)
newProbeServicesClientForCheckIn(s, ctx) == NewProbeServicesClient(s, ctx)

----------------------------------------------------------------------------
(* Session: the identity accessors CheckIn uses *)

\* platform.Name() on the machine of the model
Platform == "linux"

\* Session.ProbeASN
ProbeASN(s) == IF s.location # NilRef THEN s.location.ASN ELSE DefaultProbeASN

\* a slip: ProbeCC forgetting the cached location
ProbeCC_AlwaysDefault(s) == DefaultProbeCC

\* Session.ProbeCC
ProbeCC(s) ==
    IF s.location # NilRef THEN s.location.CountryCode ELSE DefaultProbeCC

\* Session.ProbeNetworkName
ProbeNetworkName(s) ==
    IF s.location # NilRef THEN s.location.NetworkName
    ELSE DefaultProbeNetworkName

\* Session.ProbeIP
ProbeIP(s) == IF s.location # NilRef THEN s.location.ProbeIP ELSE DefaultProbeIP

\* Session.ResolverASN
ResolverASN(s) ==
    IF s.location # NilRef THEN s.location.ResolverASN ELSE DefaultResolverASN

\* Session.ResolverIP
ResolverIP(s) ==
    IF s.location # NilRef THEN s.location.ResolverIP ELSE DefaultResolverIP

\* Session.ResolverNetworkName
ResolverNetworkName(s) ==
    IF s.location # NilRef THEN s.location.ResolverNetworkName
    ELSE DefaultResolverNetworkName

\* strconv for one decimal digit
Digit(d) ==
    CASE d = 0 -> "0" [] d = 1 -> "1" [] d = 2 -> "2" [] d = 3 -> "3"
      [] d = 4 -> "4" [] d = 5 -> "5" [] d = 6 -> "6" [] d = 7 -> "7"
      [] d = 8 -> "8" [] d = 9 -> "9"

RECURSIVE FormatUint(_)
\* fmt's %d of an unsigned integer
FormatUint(n) ==
    IF n < 10 THEN Digit(n) ELSE FormatUint(n \div 10) \o Digit(n % 10)

\* Session.ProbeASNString
ProbeASNString(s) == "AS" \o FormatUint(ProbeASN(s))

\* Session.SoftwareName
SoftwareName(s) == s.softwareName

\* Session.SoftwareVersion
SoftwareVersion(s) == s.softwareVersion

----------------------------------------------------------------------------
(* Session.CheckIn *)

\* a []string: nil is NilRef, a slice is [elems |-> its elements]
EmptySlice == [elems |-> <<>>]

\* a model.CheckInConfig the caller filled in completely
CallerConfig ==
    [Platform |-> "android", ProbeASN |-> "AS1234", ProbeCC |-> "DE",
     RunType |-> "manual", SoftwareName |-> "ooniprobe-android",
     SoftwareVersion |-> "3.0.0",
     CategoryCodes |-> [elems |-> <<"NEWS">>]]

\* the zero value of model.CheckInConfig
ZeroConfig ==
    [Platform |-> "", ProbeASN |-> "", ProbeCC |-> "", RunType |-> "",
     SoftwareName |-> "", SoftwareVersion |-> "", CategoryCodes |-> NilRef]

ConfigFields == DOMAIN ZeroConfig

\* the fields of a config, in two halves
OddFields == {"Platform", "ProbeCC", "SoftwareName", "CategoryCodes"}
EvenFields == ConfigFields \ OddFields

\* the caller's config with only the fields of F set
Only(F) == [f \in ConfigFields |-> IF f \in F THEN CallerConfig[f] ELSE ZeroConfig[f]]

\* the configs a caller passes: every field set, no field set, one half set
CheckInConfigs == {CallerConfig, ZeroConfig, Only(OddFields), Only(EvenFields)}

\* a slip: the session's defaults replace what the caller set
BackFill_Overwrite(s, config) ==
    [Platform |-> Platform, ProbeASN |-> ProbeASNString(s),
     ProbeCC |-> ProbeCC(s), RunType |-> "timed",
     SoftwareName |-> SoftwareName(s),
     SoftwareVersion |-> SoftwareVersion(s), CategoryCodes |-> EmptySlice]

\* the back-fill of the fields the caller left empty
BackFill(s, config) ==
    [Platform |->
        IF config.Platform = "" THEN Platform ELSE config.Platform,
     ProbeASN |->
        IF config.ProbeASN = "" THEN ProbeASNString(s) ELSE config.ProbeASN,
     ProbeCC |->
        IF config.ProbeCC = "" THEN ProbeCC(s) ELSE config.ProbeCC,
     RunType |->
        IF config.RunType = "" THEN "timed" ELSE config.RunType,
     SoftwareName |->
        IF config.SoftwareName = "" THEN SoftwareName(s)
        ELSE config.SoftwareName,
     SoftwareVersion |->
        IF config.SoftwareVersion = "" THEN SoftwareVersion(s)
        ELSE config.SoftwareVersion,
     CategoryCodes |->
        IF config.CategoryCodes = NilRef THEN EmptySlice
        ELSE config.CategoryCodes]

\* one result of CheckIn: as Ret, with the caller's config after the call and
\* the config handed to the client (NilRef when the client was not called)
RetCheckIn(s, err, fx, config, sent) ==
    [sess |-> s, err |-> err, fx |-> fx, config |-> config, sent |-> sent]

\* Session.CheckIn
CheckIn(s, ctx, config) ==
    UNION {
        IF l.err # Nil
        THEN {RetCheckIn(l.sess, l.err, l.fx, config, NilRef)}
        ELSE UNION {
            IF c.err # Nil
            THEN {RetCheckIn(c.sess, c.err, AddFx(l.fx, c.fx), config, NilRef)}
            ELSE LET filled == BackFill(c.sess, config)
                 IN  {RetCheckIn(c.sess, api,
                                 [AddFx(l.fx, c.fx) EXCEPT
                                     !.apiCalls = 1,
                                     !.trace = @ \o <<"back-fill",
                                                      "Client.CheckIn">>],
                                 filled, filled)
                        : api \in ClientCheckIn(ctx, filled)}
            : c \in newProbeServicesClientForCheckIn(l.sess, ctx)}
        : l \in maybeLookupLocationContext(s, ctx)}

----------------------------------------------------------------------------
(* Session.Close *)

\* what os.RemoveAll(tempDir) returns: the directory is the session's own,
\* and its removal succeeds
RemoveAll == {Nil}

\* how many times Close invokes Tunnel.Stop
CloseStops(s) == IF s.tunnel # NilRef THEN 1 ELSE 0

\* Session.Close: the session's fields stay as they are
Close(s) == {Ret(s, err, NoFx) : err \in RemoveAll}

----------------------------------------------------------------------------
(* NewSession *)

\* the configs NewSession accepts: AssetsDir, Logger, SoftwareName and
\* SoftwareVersion are set
SessionConfigs ==
    [AssetsDir : {"/var/lib/ooni/assets"},
     AvailableProbeServices : ConfigProbeServices,
     ProxyURL : ConfigProxyURLs,
     SoftwareName : {"miniooni"},
     SoftwareVersion : {"0.1.0-dev"}]

\* the session NewSession returns for a config it accepts
NewSession(config) ==
    [assetsDir |-> config.AssetsDir,
     availableProbeServices |-> config.AvailableProbeServices,
     availableTestHelpers |-> NilRef,
     httpDefaultTransport |-> [ProxyURL |-> config.ProxyURL],
     location |-> NilRef,
     proxyURL |-> config.ProxyURL,
     queryProbeServicesCount |-> 0,
     resolver |-> [ProxyURL |-> config.ProxyURL],
     selectedProbeService |-> NilRef,
     softwareName |-> config.SoftwareName,
     softwareVersion |-> config.SoftwareVersion,
     tunnelName |-> "",
     tunnel |-> NilRef]

----------------------------------------------------------------------------
(* The state machine: one caller at a time, one action per operation *)

\* the record of a call that returned
Call(op, ctx, name, config, pre, r, sent, client) ==
    [op |-> op, ctx |-> ctx, name |-> name, config |-> config, pre |-> pre,
     err |-> r.err, fx |-> r.fx, sent |-> sent, client |-> client]

Init ==
    \E config \in SessionConfigs :
        /\ sess = NewSession(config)
        /\ tempDirExists = TRUE
        /\ tunnelStops = 0
        /\ closeCalls = 0
        /\ tryAllCount = 0
        /\ stream = NilRef
        /\ threads = NilRef
        /\ last = Call("NewSession", "live", "", NilRef, NewSession(config),
                       Ret(NewSession(config), Nil, NoFx), NilRef, NilRef)

\* a method that leaves the tunnel and the temporary directory alone returns r
Returns(r) ==
    /\ r.sess.queryProbeServicesCount <= MaxQueries
    /\ sess' = r.sess
    /\ tryAllCount' = tryAllCount + r.fx.tryAlls
    /\ UNCHANGED <<tempDirExists, tunnelStops, closeCalls, stream, threads>>

CallMaybeStartTunnel ==
    \E ctx \in Ctxs, name \in Names :
        \E r \in MaybeStartTunnel(sess, ctx, name) :
            /\ Returns(r)
            /\ last' = Call("MaybeStartTunnel", ctx, name, NilRef, sess, r,
                            NilRef, NilRef)

CallMaybeLookupLocationContext ==
    \E ctx \in Ctxs :
        \E r \in MaybeLookupLocationContext(sess, ctx) :
            /\ Returns(r)
            /\ last' = Call("MaybeLookupLocationContext", ctx, "", NilRef,
                            sess, r, NilRef, NilRef)

CallMaybeLookupBackendsContext ==
    \E ctx \in Ctxs :
        \E r \in MaybeLookupBackendsContext(sess, ctx) :
            /\ Returns(r)
            /\ last' = Call("MaybeLookupBackendsContext", ctx, "", NilRef,
                            sess, r, NilRef, NilRef)

CallNewProbeServicesClient ==
    \E ctx \in Ctxs :
        \E r \in NewProbeServicesClient(sess, ctx) :
            /\ Returns(r)
            /\ last' = Call("NewProbeServicesClient", ctx, "", NilRef,
                            sess, r, NilRef, r.client)

CallCheckIn ==
    \E ctx \in Ctxs, config \in CheckInConfigs :
        \E r \in CheckIn(sess, ctx, config) :
            /\ Returns(r)
            /\ last' = Call("CheckIn", ctx, "",
                            [passed |-> config, returned |-> r.config],
                            sess, r, r.sent, NilRef)

CallClose ==
    /\ closeCalls < MaxClose
    /\ \E r \in Close(sess) :
        /\ sess' = r.sess
        /\ closeCalls' = closeCalls + 1
        /\ tunnelStops' = tunnelStops + CloseStops(sess)
        /\ tempDirExists' = (tempDirExists /\ r.err # Nil)
        /\ UNCHANGED <<tryAllCount, stream, threads>>
        /\ last' = Call("Close", "live", "", NilRef, sess, r, NilRef, NilRef)

Next ==
    \/ CallMaybeStartTunnel
    \/ CallMaybeLookupLocationContext
    \/ CallMaybeLookupBackendsContext
    \/ CallNewProbeServicesClient
    \/ CallCheckIn
    \/ CallClose

Spec == Init /\ [][Next]_vars

----------------------------------------------------------------------------
(* The tunnel triple *)

\* C1: MaybeStartTunnel with a non-empty name returns ErrAlreadyUsingProxy,
\* and does not call tunnel.Start, whenever a proxy URL is already set or a
\* tunnel with a different name is running and no tunnel with that name is.
C1_TunnelConflict ==
    ( /\ last.op = "MaybeStartTunnel"
      /\ last.name # ""
      /\ \/ last.pre.proxyURL # Nil
         \/ last.pre.tunnel # NilRef /\ last.pre.tunnelName # last.name
      /\ ~(last.pre.tunnel # NilRef /\ last.pre.tunnelName = last.name) )
    => /\ last.err = ErrAlreadyUsingProxy
       /\ last.fx.starts = 0
       /\ sess = last.pre

\* "tor" was started, and MaybeStartTunnel("psiphon") was refused
C1_Witness ==
    /\ last.op = "MaybeStartTunnel"
    /\ last.name = "psiphon"
    /\ last.pre.tunnel # NilRef
    /\ last.pre.tunnelName = "tor"
    /\ last.err = ErrAlreadyUsingProxy

\* C2: with a non-empty name, no proxy and no tunnel, MaybeStartTunnel calls
\* tunnel.Start; on success it stores the tunnel, its name and its SOCKS5 URL
\* and changes nothing else, on failure it returns the start error and leaves
\* the session as it was; and whenever a call with a non-empty name returns
\* nil, ProxyURL() is the URL of the running tunnel of that name.
C2_TunnelStart ==
    /\ ( /\ last.op = "MaybeStartTunnel"
         /\ last.name # ""
         /\ last.pre.proxyURL = Nil
         /\ last.pre.tunnel = NilRef )
       => /\ last.fx.starts = 1
          /\ last.err = Nil =>
                /\ sess.tunnel # NilRef
                /\ sess.tunnelName = last.name
                /\ sess.proxyURL = SOCKS5ProxyURL(sess.tunnel)
                /\ sess = [last.pre EXCEPT !.tunnel = sess.tunnel,
                                           !.tunnelName = sess.tunnelName,
                                           !.proxyURL = sess.proxyURL]
          /\ last.err # Nil =>
                /\ last.err = ErrTunnelStart
                /\ sess = last.pre
    /\ ( /\ last.op = "MaybeStartTunnel"
         /\ last.name # ""
         /\ last.err = Nil )
       => /\ ProxyURL(sess) # Nil
          /\ sess.tunnel # NilRef
          /\ sess.tunnel.name = last.name
          /\ ProxyURL(sess) = SOCKS5ProxyURL(sess.tunnel)

\* a tunnel was started by the call that just returned
C2_Witness ==
    /\ last.op = "MaybeStartTunnel"
    /\ last.name = "tor"
    /\ last.pre.proxyURL = Nil
    /\ last.pre.tunnel = NilRef
    /\ last.err = Nil
    /\ sess.proxyURL = "socks5://127.0.0.1/tor"

\* C3: MaybeStartTunnel with the empty name returns nil and leaves the
\* session as it was, with no proxy and no tunnel as well as with a proxy.
C3_EmptyNameNoOp ==
    ( /\ last.op = "MaybeStartTunnel"
      /\ last.name = ""
      /\ \/ last.pre.proxyURL = Nil /\ last.pre.tunnel = NilRef
         \/ last.pre.proxyURL # Nil )
    => /\ last.err = Nil
       /\ sess = last.pre

\* the empty name was passed to a session with the caller's proxy
C3_Witness ==
    /\ last.op = "MaybeStartTunnel"
    /\ last.name = ""
    /\ last.pre.proxyURL = ConfigProxyURL
    /\ last.err = Nil
    /\ sess.proxyURL = ConfigProxyURL

\* C4: once a tunnel named N is running, MaybeStartTunnel(N) returns nil, does
\* not call tunnel.Start and leaves the session as it was.
C4_SameNameIdempotent ==
    ( /\ last.op = "MaybeStartTunnel"
      /\ last.pre.tunnel # NilRef
      /\ last.pre.tunnelName = last.name )
    => /\ last.err = Nil
       /\ last.fx.starts = 0
       /\ sess = last.pre

\* "tor" was running and MaybeStartTunnel("tor") was called again
C4_Witness ==
    /\ last.op = "MaybeStartTunnel"
    /\ last.name = "tor"
    /\ last.pre.tunnel # NilRef
    /\ last.pre.tunnelName = "tor"
    /\ last.err = Nil

----------------------------------------------------------------------------
(* The set-once fields and Close *)

\* C5: location, selectedProbeService, availableTestHelpers and proxyURL are
\* set once: no step of any operation changes one of them once it is non-nil.
C5_SetOnce ==
    [][ /\ sess.location # NilRef => sess'.location = sess.location
        /\ sess.selectedProbeService # NilRef =>
                sess'.selectedProbeService = sess.selectedProbeService
        /\ sess.availableTestHelpers # NilRef =>
                sess'.availableTestHelpers = sess.availableTestHelpers
        /\ sess.proxyURL # Nil => sess'.proxyURL = sess.proxyURL ]_vars

\* the four fields were set, and CheckIn then ran on the session
C5_Witness ==
    /\ last.op = "CheckIn"
    /\ last.err = Nil
    /\ last.pre.location # NilRef
    /\ last.pre.selectedProbeService # NilRef
    /\ last.pre.availableTestHelpers # NilRef
    /\ last.pre.proxyURL # Nil
    /\ last.pre.tunnel # NilRef

\* C6: when Close has returned on a session with a started tunnel,
\* Tunnel.Stop has been invoked exactly once on that tunnel, however many
\* times Close was called.
C6_StopExactlyOnce ==
    (last.op = "Close" /\ sess.tunnel # NilRef) => tunnelStops = 1

----------------------------------------------------------------------------
(* The cached lookups *)

\* C7: with a live context, MaybeLookupLocationContext on a session with a
\* cached location returns nil, runs no lookup and changes nothing; without
\* a cached location it runs the lookup once, caches the result on success
\* (changing nothing else) and, on failure, returns the error and caches
\* nothing, so that the next call runs the lookup again.
C7_LocationCached ==
    (last.op = "MaybeLookupLocationContext" /\ last.ctx = "live")
    => /\ last.pre.location # NilRef =>
            /\ last.err = Nil
            /\ last.fx.lookups = 0
            /\ sess = last.pre
       /\ last.pre.location = NilRef =>
            /\ last.fx.lookups = 1
            /\ last.err = Nil =>
                    /\ sess.location # NilRef
                    /\ sess = [last.pre EXCEPT !.location = sess.location]
            /\ last.err # Nil => sess = last.pre

\* a second call found the location of the first
C7_Witness ==
    /\ last.op = "MaybeLookupLocationContext"
    /\ last.ctx = "live"
    /\ last.pre.location # NilRef
    /\ last.err = Nil
    /\ sess.location = last.pre.location

\* C8: once a probe service is selected, MaybeLookupBackendsContext returns
\* nil, runs no selection and changes nothing; and the query counter is the
\* number of selections run.
C8_BackendsCached ==
    /\ ( /\ last.op = "MaybeLookupBackendsContext"
         /\ last.pre.selectedProbeService # NilRef )
       => /\ last.err = Nil
          /\ last.fx.tryAlls = 0
          /\ sess = last.pre
    /\ sess.queryProbeServicesCount = tryAllCount
    /\ sess.queryProbeServicesCount
            = last.pre.queryProbeServicesCount + last.fx.tryAlls

\* a selection failed, the next one succeeded, and a third call found it
C8_Witness ==
    /\ last.op = "MaybeLookupBackendsContext"
    /\ last.pre.selectedProbeService # NilRef
    /\ last.err = Nil
    /\ sess.queryProbeServicesCount = 2

\* C9: called with a context that is already cancelled,
\* MaybeLookupLocationContext and NewProbeServicesClient return the
\* context's error, run no lookup and no selection, and change nothing.
C9_CancelledFailsFast ==
    ( /\ last.op \in {"MaybeLookupLocationContext", "NewProbeServicesClient"}
      /\ last.ctx = "cancelled" )
    => /\ last.err = CtxErr("cancelled")
       /\ last.fx = NoFx
       /\ last.client = NilRef
       /\ sess = last.pre

\* NewProbeServicesClient got a cancelled context with everything cached
C9_Witness ==
    /\ last.op = "NewProbeServicesClient"
    /\ last.ctx = "cancelled"
    /\ last.pre.location # NilRef
    /\ last.pre.selectedProbeService # NilRef
    /\ last.err = "context canceled"

\* C10: called with a context that is already cancelled,
\* MaybeLookupBackendsContext returns the context's error and benchmarks no
\* candidate.
C10_BackendsCancelled ==
    (last.op = "MaybeLookupBackendsContext" /\ last.ctx = "cancelled")
    => /\ last.err = CtxErr("cancelled")
       /\ last.fx.tryAlls = 0

----------------------------------------------------------------------------
(* The selection of the probe service *)

\* C11: a selection in which no candidate succeeds returns
\* ErrAllProbeServicesFailed and leaves selectedProbeService and
\* availableTestHelpers unset (only the query counter changes), so a later
\* call on that session runs the selection again; a selection in which a
\* candidate succeeds returns nil and sets both fields from the one candidate
\* it selected, changing nothing else but the counter.
C11_FailureNotCached ==
    ( /\ last.op = "MaybeLookupBackendsContext"
      /\ last.pre.selectedProbeService = NilRef )
    => /\ last.fx.tryAlls = 1
       /\ last.err \in {Nil, ErrAllProbeServicesFailed}
       /\ last.err = ErrAllProbeServicesFailed <=> last.fx.selected = NilRef
       /\ last.fx.selected = NilRef =>
            /\ sess.selectedProbeService = NilRef
            /\ sess.availableTestHelpers = NilRef
            /\ sess = [last.pre EXCEPT !.queryProbeServicesCount = @ + 1]
       /\ last.fx.selected # NilRef =>
            /\ sess.selectedProbeService = last.fx.selected.Endpoint
            /\ sess.availableTestHelpers = last.fx.selected.TestHelpers
            /\ sess = [last.pre EXCEPT
                          !.queryProbeServicesCount = @ + 1,
                          !.selectedProbeService = last.fx.selected.Endpoint,
                          !.availableTestHelpers = last.fx.selected.TestHelpers]

\* a selection failed, and the next call ran the selection again and stored
\* an endpoint with its test helpers
C11_Witness ==
    /\ last.op = "MaybeLookupBackendsContext"
    /\ last.ctx = "live"
    /\ last.pre.queryProbeServicesCount = 1
    /\ last.pre.selectedProbeService = NilRef
    /\ last.fx.tryAlls = 1
    /\ last.err = Nil
    /\ sess.selectedProbeService # NilRef
    /\ sess.availableTestHelpers # NilRef

----------------------------------------------------------------------------
(* SelectBest over lists of candidates *)

\* the times a benchmark took, in milliseconds
CandidateDurations == {0, 80, 300}

\* the i-th endpoint of a list of candidates
CandidateEndpoint(i) ==
    [Address |-> "https://ps" \o FormatUint(i) \o ".ooni.io", Type |-> "https"]

\* the lists of at most MaxCandidates candidates: each failed or succeeded
\* after one of the durations
CandidateLists ==
    UNION {[1..n -> [Duration : CandidateDurations, Err : {Nil, "EOF"}]] :
            n \in 0..MaxCandidates}

\* the candidates TryAll returns for a list of outcomes
Candidates(outcomes) ==
    [i \in 1..Len(outcomes) |->
        [Endpoint |-> CandidateEndpoint(i), Duration |-> outcomes[i].Duration,
         Err |-> outcomes[i].Err, TestHelpers |-> NilRef]]

\* the session takes no part in this specification
NoSession ==
    /\ sess = NilRef
    /\ tempDirExists = FALSE
    /\ tunnelStops = 0
    /\ closeCalls = 0
    /\ tryAllCount = 0
    /\ threads = NilRef

InitSelectBest ==
    /\ NoSession
    /\ stream = NilRef
    /\ \E outcomes \in CandidateLists :
            last = [op |-> "TryAll", candidates |-> Candidates(outcomes),
                    selected |-> NilRef]

\* selected := probeservices.SelectBest(candidates)
CallSelectBest ==
    /\ last.op = "TryAll"
    /\ last' = [op |-> "SelectBest", candidates |-> last.candidates,
                selected |-> SelectBest(last.candidates)]
    /\ UNCHANGED <<sess, tempDirExists, tunnelStops, closeCalls, tryAllCount,
                   stream, threads>>

NextSelectBest == CallSelectBest

SpecSelectBest == InitSelectBest /\ [][NextSelectBest]_vars

\* the indices of the candidates without error
Working(candidates) ==
    {i \in 1..Len(candidates) : candidates[i].Err = Nil}

\* the example of the specification: A fails at once, B succeeds in 300 ms,
\* C succeeds in 80 ms
ExampleCandidates ==
    Candidates(<<[Duration |-> 0, Err |-> "EOF"],
                 [Duration |-> 300, Err |-> Nil],
                 [Duration |-> 80, Err |-> Nil]>>)

\* C12: SelectBest returns nil exactly when no candidate is without error;
\* otherwise it returns the candidate without error whose Duration is
\* smallest and, among those of that Duration, the one of lowest index; for
\* [A failed, B ok in 300 ms, C ok in 80 ms] it returns C.
C12_SelectBest ==
    last.op = "SelectBest"
    => /\ last.selected = NilRef <=> Working(last.candidates) = {}
       /\ Working(last.candidates) # {} =>
            \E i \in Working(last.candidates) :
                /\ last.selected = last.candidates[i]
                /\ \A j \in Working(last.candidates) :
                        /\ last.candidates[i].Duration
                                <= last.candidates[j].Duration
                        /\ last.candidates[j].Duration
                                = last.candidates[i].Duration => i <= j
       /\ last.candidates = ExampleCandidates
            => last.selected = ExampleCandidates[3]

\* SelectBest was applied to three working candidates, the last two as fast
\* as each other and faster than the first, and chose the second
C12_Witness ==
    /\ last.op = "SelectBest"
    /\ Len(last.candidates) = 3
    /\ Working(last.candidates) = {1, 2, 3}
    /\ last.candidates[1].Duration = 300
    /\ last.candidates[2].Duration = 80
    /\ last.candidates[3].Duration = 80
    /\ last.selected = last.candidates[2]

----------------------------------------------------------------------------
(* The retry of the selection *)

\* a circumvention tactic the session could apply: it uses no proxy and no
\* tunnel yet, so a tunnel could be started
CircumventionAvailable(s) == s.proxyURL = Nil /\ s.tunnel = NilRef

----------------------------------------------------------------------------
(* The policies of package enginenetx: the DNS policy and the bridges      *)
(* policy that wraps it                                                     *)

\* the position of the DNS-derived tactic in the stream for api.ooni.io when
\* the resolver returns one address
expectedDNSEntryCount == 153

\* the domains LookupTactics is asked for: the bridged domain, the
\* test-helper domains, a domain of neither kind
BridgedDomain == "api.ooni.io"
bridgesPolicyTestHelpersDomains == {"0.th.ooni.org", "1.th.ooni.org"}
OtherDomain == "www.example.com"
Domains ==
    {BridgedDomain, OtherDomain} \cup bridgesPolicyTestHelpersDomains

\* the ports LookupTactics is asked for
Ports == {"443", "8443"}

\* the addresses of the resolver's answers
ResolverAddrs == {"93.184.216.34", "130.192.91.211", "164.92.180.7"}

\* what Resolver.LookupHost may return: an error, or some addresses
LookupHostOutcomes ==
    {[addrs |-> <<>>, err |-> "mocked error"]}
    \cup {[addrs |-> a, err |-> Nil] :
            a \in UNION {[1..n -> ResolverAddrs] : n \in 1..MaxAddrs}}

\* a tactic: InitialDelay is zero in every tactic of the two policies
Tactic(address, port, sni, verifyHostname) ==
    [Address |-> address, InitialDelay |-> 0, Port |-> port, SNI |-> sni,
     VerifyHostname |-> verifyHostname]

\* the tactics of dnsPolicy.LookupTactics: one per resolved address, none
\* when the lookup fails
dnsPolicy(domain, port, lookup) ==
    IF lookup.err # Nil
    THEN <<>>
    ELSE [i \in 1..Len(lookup.addrs) |->
            Tactic(lookup.addrs[i], port, domain, domain)]

\* the compiled-in bridges of api.ooni.io and of the test helpers
bridgesAddrs == <<"162.55.247.208">>
testHelpersBridgesAddrs == <<"164.92.180.7">>

\* the compiled-in decoy SNIs, in their order: with one bridge and one resolved
\* address the DNS-derived tactic comes at expectedDNSEntryCount
bridgesDomains ==
    [i \in 1..(expectedDNSEntryCount - 1) |->
        "sni" \o FormatUint(i) \o ".example.org"]

\* the cross-product of addresses and decoy SNIs, ordered by address and then
\* by SNI
CrossProduct(addrs, port, verifyHostname) ==
    [n \in 1..(Len(addrs) * Len(bridgesDomains)) |->
        Tactic(addrs[((n - 1) \div Len(bridgesDomains)) + 1], port,
               bridgesDomains[((n - 1) % Len(bridgesDomains)) + 1],
               verifyHostname)]

\* a slip: no domain has bridges
bridgesTacticsForDomain_None(domain, port) == <<>>

\* the bridge tactics of a domain: none for a domain without bridges
bridgesTacticsForDomain(domain, port) ==
    IF domain = BridgedDomain
    THEN CrossProduct(bridgesAddrs, port, domain)
    ELSE IF domain \in bridgesPolicyTestHelpersDomains
    THEN CrossProduct(testHelpersBridgesAddrs, port, domain)
    ELSE <<>>

\* a slip: the fallback's tactics are forwarded as they are for every domain
RewriteTestHelpers_Never(domain) == FALSE

\* a slip: the fallback's tactics are rewritten for every domain
RewriteTestHelpers_Always(domain) == TRUE

\* the fallback's tactics are rewritten for the test-helper domains
RewriteTestHelpers(domain) == domain \in bridgesPolicyTestHelpersDomains

\* what the bridges policy forwards of its fallback: the tactics as they are,
\* except for a test-helper domain, where each address is kept and the SNI is
\* one of the decoys
maybeRewriteTestHelpersTactics(domain, fallback) ==
    IF RewriteTestHelpers(domain)
    THEN [n \in 1..(Len(fallback) * Len(bridgesDomains)) |->
            LET t == fallback[((n - 1) \div Len(bridgesDomains)) + 1]
            IN  Tactic(t.Address, t.Port,
                       bridgesDomains[((n - 1) % Len(bridgesDomains)) + 1],
                       t.VerifyHostname)]
    ELSE fallback

\* a slip: the fallback's tactics are sent before the bridge tactics
MixSequentially_FallbackFirst(bridges, fallback) == fallback \o bridges

\* the bridge tactics, and after them what is forwarded of the fallback
MixSequentially(bridges, fallback) == bridges \o fallback

\* the tactics of bridgesPolicy.LookupTactics, in the order of the stream
bridgesPolicy(domain, port, lookup) ==
    MixSequentially(
        bridgesTacticsForDomain(domain, port),
        maybeRewriteTestHelpersTactics(domain, dnsPolicy(domain, port, lookup)))

----------------------------------------------------------------------------
(* A tactics stream of the bridges policy and its reader *)

\* the stream before LookupTactics is called: the domain and the port to ask
\* for, and what the resolver of the fallback will answer
IdleStream(domain, port, lookup) ==
    [pc |-> "idle", domain |-> domain, port |-> port, lookup |-> lookup,
     pending |-> <<>>, received |-> <<>>, closed |-> FALSE]

InitTactics ==
    /\ NoSession
    /\ last = NilRef
    /\ \E domain \in Domains, port \in Ports, lookup \in LookupHostOutcomes :
            stream = IdleStream(domain, port, lookup)

\* p.LookupTactics(ctx, domain, port): the stream of the policy's tactics
LookupTactics ==
    /\ stream.pc = "idle"
    /\ stream' = [stream EXCEPT
                    !.pc = "reading",
                    !.pending = bridgesPolicy(stream.domain, stream.port,
                                              stream.lookup)]
    /\ UNCHANGED <<sess, tempDirExists, tunnelStops, closeCalls, tryAllCount,
                   threads, last>>

\* the reader receives the next tactic of the stream
Receive ==
    /\ stream.pc = "reading"
    /\ stream.pending # <<>>
    /\ stream' = [stream EXCEPT
                    !.received = Append(@, Head(stream.pending)),
                    !.pending = Tail(@)]
    /\ UNCHANGED <<sess, tempDirExists, tunnelStops, closeCalls, tryAllCount,
                   threads, last>>

\* the policy has sent its last tactic and closes the stream: the reader's
\* loop ends
CloseStream ==
    /\ stream.pc = "reading"
    /\ stream.pending = <<>>
    /\ stream' = [stream EXCEPT !.pc = "done", !.closed = TRUE]
    /\ UNCHANGED <<sess, tempDirExists, tunnelStops, closeCalls, tryAllCount,
                   threads, last>>

NextTactics == LookupTactics \/ Receive \/ CloseStream

SpecTactics == InitTactics /\ [][NextTactics]_vars

----------------------------------------------------------------------------
(* The tactics of the bridges policy *)

\* the tactic t is a bridge tactic of the stream: a bridge address, an SNI
\* that is not the requested domain, the certificate verified for the domain
BridgeTactic(t) ==
    /\ \E i \in 1..Len(bridgesAddrs) : t.Address = bridgesAddrs[i]
    /\ t.SNI # stream.domain
    /\ t.VerifyHostname = stream.domain
    /\ t.Port = stream.port
    /\ t.InitialDelay = 0

\* the tactic t is the DNS policy's tactic for the address addr
DNSTactic(t, addr) ==
    t = [Address |-> addr, Port |-> stream.port, InitialDelay |-> 0,
         SNI |-> stream.domain, VerifyHostname |-> stream.domain]

\* C14: for api.ooni.io every tactic of the stream is a bridge tactic
\* (Address among the compiled-in bridges, SNI different from the domain,
\* VerifyHostname the domain, Port the requested port, InitialDelay zero) or
\* the DNS policy's tactic for a resolved address; when the lookup fails the
\* reader receives bridge tactics only, and at least one before the stream
\* is closed.
C14_BridgeTactics ==
    stream.domain = BridgedDomain
    => /\ \A i \in 1..Len(stream.received) :
            \/ BridgeTactic(stream.received[i])
            \/ \E a \in 1..Len(stream.lookup.addrs) :
                    DNSTactic(stream.received[i], stream.lookup.addrs[a])
       /\ stream.lookup.err # Nil =>
            /\ \A i \in 1..Len(stream.received) :
                    /\ BridgeTactic(stream.received[i])
                    /\ stream.received[i].Address = "162.55.247.208"
            /\ stream.closed => Len(stream.received) >= 1

\* the lookup failed, and the stream for api.ooni.io and port 8443 was read to
\* its end
C14_Witness ==
    /\ stream.domain = BridgedDomain
    /\ stream.port = "8443"
    /\ stream.lookup.err # Nil
    /\ stream.closed
    /\ Len(stream.received) = expectedDNSEntryCount - 1

\* how many bridge tactics and how many fallback tactics the stream has
NumBridgeTactics == Len(bridgesAddrs) * Len(bridgesDomains)
NumFallbackTactics == Len(stream.lookup.addrs)

\* C15: for api.ooni.io, with k bridge tactics and d resolved addresses, the
\* reader never receives a tactic with the domain as SNI before a tactic with
\* another SNI; the closed stream has k + d tactics, the last d of them the
\* DNS policy's tactics in their order, the first k with another SNI; with
\* one resolved address the only tactic with the domain as SNI is the last
\* one, at position expectedDNSEntryCount.
C15_FallbackLast ==
    stream.domain = BridgedDomain
    => /\ \A i, j \in 1..Len(stream.received) :
            (i < j /\ stream.received[i].SNI = stream.domain)
                => stream.received[j].SNI = stream.domain
       /\ stream.closed =>
            /\ Len(stream.received) = NumBridgeTactics + NumFallbackTactics
            /\ \A i \in 1..NumBridgeTactics :
                    stream.received[i].SNI # stream.domain
            /\ \A a \in 1..NumFallbackTactics :
                    DNSTactic(stream.received[NumBridgeTactics + a],
                              stream.lookup.addrs[a])
            /\ NumFallbackTactics = 1 =>
                    /\ Len(stream.received) = expectedDNSEntryCount
                    /\ \A i \in 1..Len(stream.received) :
                            stream.received[i].SNI = stream.domain
                                <=> i = expectedDNSEntryCount

\* the resolver returned one address, and the stream for api.ooni.io was read
\* to its end
C15_Witness ==
    /\ stream.domain = BridgedDomain
    /\ stream.lookup.addrs = <<"130.192.91.211">>
    /\ stream.closed
    /\ stream.received[expectedDNSEntryCount].Address = "130.192.91.211"
    /\ stream.received[expectedDNSEntryCount - 1].Address = "162.55.247.208"

\* C16: for a domain that is neither bridged nor a test helper's, the stream
\* of the bridges policy is the stream of the DNS policy: one tactic per
\* resolved address, in their order, each with the address, the requested
\* port, InitialDelay zero and the domain as SNI and VerifyHostname; when the
\* lookup fails the stream is closed with no tactic.
C16_OtherDomainPassThrough ==
    (stream.domain = OtherDomain /\ stream.pc # "idle")
    => /\ stream.received \o stream.pending
            = dnsPolicy(stream.domain, stream.port, stream.lookup)
       /\ Len(stream.received) <= Len(stream.lookup.addrs)
       /\ \A i \in 1..Len(stream.received) :
            DNSTactic(stream.received[i], stream.lookup.addrs[i])
       /\ stream.closed =>
            Len(stream.received) = Len(stream.lookup.addrs)
       /\ stream.lookup.err # Nil =>
            /\ stream.received = <<>>
            /\ stream.pending = <<>>

\* the lookup failed, and the stream for www.example.com was closed
C16_Witness ==
    /\ stream.domain = OtherDomain
    /\ stream.lookup.err # Nil
    /\ stream.closed
    /\ stream.received = <<>>

\* C17: for a test-helper domain every tactic the reader receives has an SNI
\* different from the domain, VerifyHostname the domain, Port the requested
\* port and InitialDelay zero; when the resolver returns 164.92.180.7 alone
\* every tactic has Address 164.92.180.7.
C17_TestHelperTactics ==
    stream.domain \in bridgesPolicyTestHelpersDomains
    => /\ \A i \in 1..Len(stream.received) :
            /\ stream.received[i].SNI # stream.domain
            /\ stream.received[i].VerifyHostname = stream.domain
            /\ stream.received[i].Port = stream.port
            /\ stream.received[i].InitialDelay = 0
       /\ stream.lookup.addrs = <<"164.92.180.7">> =>
            \A i \in 1..Len(stream.received) :
                stream.received[i].Address = "164.92.180.7"

\* the resolver returned 164.92.180.7, and the stream for a test helper was
\* read to its end: the bridge tactics and the tactics derived from the
\* fallback
C17_Witness ==
    /\ stream.domain = "1.th.ooni.org"
    /\ stream.lookup.addrs = <<"164.92.180.7">>
    /\ stream.closed
    /\ Len(stream.received) = 2 * (expectedDNSEntryCount - 1)

----------------------------------------------------------------------------
(* CheckIn *)

\* C18: the config CheckIn hands to the probe-services client is the
\* caller's config with each field left empty (nil for the category codes)
\* replaced by the session's default: Platform(), "AS" and the ASN, ProbeCC(),
\* "timed", the software name and version, the empty list; a field the
\* caller set is kept, and no field of the config handed over is empty.
C18_BackFill ==
    (last.op = "CheckIn" /\ last.fx.apiCalls = 1)
    => /\ last.config.returned = last.sent
       /\ \A f \in ConfigFields :
            /\ last.config.passed[f] # ZeroConfig[f]
                    => last.sent[f] = last.config.passed[f]
            /\ last.sent[f] # ZeroConfig[f]
       /\ last.config.passed.Platform = "" => last.sent.Platform = "linux"
       /\ last.config.passed.ProbeASN = "" =>
            /\ last.sent.ProbeASN = "AS" \o FormatUint(sess.location.ASN)
            /\ last.sent.ProbeASN \in {"AS30722", "AS7922"}
       /\ last.config.passed.ProbeCC = "" =>
            last.sent.ProbeCC = sess.location.CountryCode
       /\ last.config.passed.RunType = "" => last.sent.RunType = "timed"
       /\ last.config.passed.SoftwareName = "" =>
            last.sent.SoftwareName = sess.softwareName
       /\ last.config.passed.SoftwareVersion = "" =>
            last.sent.SoftwareVersion = sess.softwareVersion
       /\ last.config.passed.CategoryCodes = NilRef =>
            last.sent.CategoryCodes = [elems |-> <<>>]

\* the caller set the platform, the country, the software name and the
\* category codes, and CheckIn filled in the rest
C18_Witness ==
    /\ last.op = "CheckIn"
    /\ last.err = Nil
    /\ last.config.passed = Only(OddFields)
    /\ last.sent.Platform = "android"
    /\ last.sent.ProbeASN = "AS30722"
    /\ last.sent.ProbeCC = "DE"
    /\ last.sent.RunType = "timed"
    /\ last.sent.SoftwareVersion = "0.1.0-dev"

\* the place of a step in the order of CheckIn
StepRank(step) ==
    CASE step = "geolocate.Task.Run" -> 1
      [] step = "probeservices.TryAll" -> 2
      [] step = "probeservices.NewClient" -> 3
      [] step = "back-fill" -> 4
      [] step = "Client.CheckIn" -> 5

\* the step at which a CheckIn that made the calls of trace gave up
FailedStep(trace) == IF trace = <<>> THEN "ctx.Err" ELSE trace[Len(trace)]

\* C19: the steps of a CheckIn come in the order location lookup, selection
\* of the probe service, creation of the client, back-fill, check-in API,
\* each at most once; the API is called only with a location and a probe
\* service, looked up by this call when the session had none; and when the
\* lookup, the selection or the creation of the client fails, CheckIn returns
\* that error, the API is not called, no back-fill is made and the caller's
\* config is as it was passed.
C19_CheckInOrder ==
    last.op = "CheckIn"
    => /\ \A i, j \in 1..Len(last.fx.trace) :
            i < j => StepRank(last.fx.trace[i]) < StepRank(last.fx.trace[j])
       /\ last.fx.apiCalls = 1 =>
            /\ Len(last.fx.trace) >= 3
            /\ SubSeq(last.fx.trace, Len(last.fx.trace) - 2,
                      Len(last.fx.trace))
                    = <<"probeservices.NewClient", "back-fill",
                        "Client.CheckIn">>
            /\ sess.location # NilRef
            /\ sess.selectedProbeService # NilRef
            /\ last.pre.location = NilRef => last.fx.lookups = 1
            /\ last.pre.selectedProbeService = NilRef => last.fx.tryAlls = 1
       /\ last.fx.apiCalls = 0 =>
            /\ last.err # Nil
            /\ last.sent = NilRef
            /\ last.config.returned = last.config.passed
            /\ \A i \in 1..Len(last.fx.trace) :
                    StepRank(last.fx.trace[i]) <= 3
            /\ last.err =
                    CASE FailedStep(last.fx.trace) = "ctx.Err"
                            -> "context canceled"
                      [] FailedStep(last.fx.trace) = "geolocate.Task.Run"
                            -> ErrLookupLocation
                      [] FailedStep(last.fx.trace) = "probeservices.TryAll"
                            -> ErrAllProbeServicesFailed
                      [] FailedStep(last.fx.trace) = "probeservices.NewClient"
                            -> ErrNewClient

\* CheckIn looked up the location, selected a probe service, and the
\* creation of the client failed: the config the caller passed, with no
\* field set, is untouched
C19_Witness ==
    /\ last.op = "CheckIn"
    /\ last.fx.trace = <<"geolocate.Task.Run", "probeservices.TryAll",
                         "probeservices.NewClient">>
    /\ last.err = ErrNewClient
    /\ last.config.passed = ZeroConfig
    /\ last.config.returned = ZeroConfig

----------------------------------------------------------------------------
(* The identity accessors *)

\* what the seven identity accessors return on the session s
Identity(s) ==
    <<ProbeASN(s), ProbeCC(s), ProbeNetworkName(s), ProbeIP(s),
      ResolverASN(s), ResolverIP(s), ResolverNetworkName(s)>>

\* C20: in every reachable state the identity accessors return the
\* compile-time defaults (ProbeCC "ZZ") when location is nil and the fields
\* of the cached location when it is not; and a location lookup that failed
\* leaves what they return as it was.
C20_IdentityAccessors ==
    /\ sess.location = NilRef =>
            /\ Identity(sess)
                    = <<DefaultProbeASN, DefaultProbeCC,
                        DefaultProbeNetworkName, DefaultProbeIP,
                        DefaultResolverASN, DefaultResolverIP,
                        DefaultResolverNetworkName>>
            /\ ProbeCC(sess) = "ZZ"
    /\ sess.location # NilRef =>
            Identity(sess)
                = <<sess.location.ASN, sess.location.CountryCode,
                    sess.location.NetworkName, sess.location.ProbeIP,
                    sess.location.ResolverASN, sess.location.ResolverIP,
                    sess.location.ResolverNetworkName>>
    /\ (last.fx.lookups > 0 /\ sess.location = NilRef) =>
            Identity(sess) = Identity(last.pre)
    /\ last.pre.location # NilRef => Identity(sess) = Identity(last.pre)

\* a lookup found the probe in Italy behind the resolver 8.8.8.8: the
\* accessors returned the defaults before it and return the location now
C20_Witness ==
    /\ last.op = "MaybeLookupLocationContext"
    /\ last.err = Nil
    /\ last.pre.location = NilRef
    /\ ProbeCC(last.pre) = "ZZ"
    /\ ProbeIP(last.pre) = "127.0.0.1"
    /\ ProbeCC(sess) = "IT"
    /\ ProbeASN(sess) = 30722
    /\ ResolverIP(sess) = "8.8.8.8"

----------------------------------------------------------------------------
(* The proxy of the session *)

\* C21: a location lookup made by a call on a session with a proxy URL (the
\* caller's, or the URL of a started tunnel) has the resolver lookup
\* disabled, and a lookup made on a session without proxy URL has it enabled.
C21_NoResolverLookupBehindProxy ==
    last.fx.lookups > 0
    => /\ last.pre.proxyURL # Nil => ~last.fx.resolverLookup
       /\ last.pre.proxyURL = Nil => last.fx.resolverLookup
       /\ sess.proxyURL = last.pre.proxyURL

\* a tunnel was started, and a location lookup then ran without the resolver
\* lookup
C21_Witness ==
    /\ last.op = "MaybeLookupLocationContext"
    /\ last.pre.tunnel # NilRef
    /\ last.pre.proxyURL = "socks5://127.0.0.1/tor"
    /\ last.fx.lookups = 1
    /\ ~last.fx.resolverLookup
    /\ last.err = Nil

\* C22: a selection of the probe service that runs on a session with a
\* started tunnel goes through a default HTTP transport whose proxy is the
\* session's proxy URL, the SOCKS5 URL of the tunnel.
C22_TransportUsesTunnel ==
    (last.fx.tryAlls > 0 /\ last.pre.tunnel # NilRef)
    => /\ last.pre.httpDefaultTransport.ProxyURL = last.pre.proxyURL
       /\ last.pre.httpDefaultTransport.ProxyURL
            = SOCKS5ProxyURL(last.pre.tunnel)

----------------------------------------------------------------------------
(* Concurrent callers of one session: each method is a sequence of steps,   *)
(* one per mutex operation, per access to the guarded fields and per call   *)
(* to a collaborator                                                        *)

\* the goroutines that call the session
Callers == {1, 2}

\* the methods they call
ThreadOps ==
    {"MaybeStartTunnel", "MaybeLookupLocation", "MaybeLookupBackends",
     "NewProbeServicesClient", "ProxyURL", "Close", "ProbeCC"}

\* the first step of a method
FirstPc(op) ==
    CASE op = "MaybeStartTunnel" -> "st_lock"
      [] op = "MaybeLookupLocation" -> "ll_lock"
      [] op = "MaybeLookupBackends" -> "lb_lock"
      [] op = "NewProbeServicesClient" -> "lb_lock"
      [] op = "ProxyURL" -> "px_read"
      [] op = "Close" -> "cl_read"
      [] op = "ProbeCC" -> "cc_lock"

\* the mutex a step is about to lock, if any
Wants(pc) ==
    CASE pc = "st_lock" -> "tunnelMu"
      [] pc \in {"ll_lock", "lb_lock", "cc_lock"} -> "mu"
      [] OTHER -> "none"

\* the guarded fields a step is about to read (w FALSE) or write (w TRUE)
Access(pc) ==
    CASE pc = "st_check" ->
            {[field |-> "tunnel", w |-> FALSE],
             [field |-> "tunnelName", w |-> FALSE],
             [field |-> "proxyURL", w |-> FALSE]}
      [] pc = "st_store" ->
            {[field |-> "tunnel", w |-> TRUE],
             [field |-> "tunnelName", w |-> TRUE],
             [field |-> "proxyURL", w |-> TRUE]}
      [] pc = "ll_check" -> {[field |-> "location", w |-> FALSE]}
      [] pc = "ll_lookup" -> {[field |-> "proxyURL", w |-> FALSE]}
      [] pc = "ll_store" -> {[field |-> "location", w |-> TRUE]}
      [] pc = "lb_check" -> {[field |-> "selectedProbeService", w |-> FALSE]}
      [] pc = "lb_store" ->
            {[field |-> "selectedProbeService", w |-> TRUE],
             [field |-> "availableTestHelpers", w |-> TRUE]}
      [] pc = "pc_client" -> {[field |-> "selectedProbeService", w |-> FALSE]}
      [] pc = "px_read" -> {[field |-> "proxyURL", w |-> FALSE]}
      [] pc = "cl_read" -> {[field |-> "tunnel", w |-> FALSE]}
      [] pc = "cc_read" -> {[field |-> "location", w |-> FALSE]}
      [] OTHER -> {}

\* the mutex that guards a field
Guard(field) ==
    IF field \in {"proxyURL", "tunnel", "tunnelName"} THEN "tunnelMu" ELSE "mu"

\* the mutexes the caller c holds
Held(c) ==
    (IF threads.mu = c THEN {"mu"} ELSE {})
    \cup (IF threads.tunnelMu = c THEN {"tunnelMu"} ELSE {})

\* a caller between two calls
IdleCall ==
    [op |-> "none", pc |-> "idle", name |-> "", err |-> Nil, local |-> NilRef,
     calls |-> 0, saw |-> NilRef]

InitThreads ==
    /\ \E config \in SessionConfigs :
            /\ config.AvailableProbeServices = <<>>
            /\ sess = NewSession(config)
    /\ tempDirExists = TRUE
    /\ tunnelStops = 0
    /\ closeCalls = 0
    /\ tryAllCount = 0
    /\ stream = NilRef
    /\ last = NilRef
    /\ threads = [mu |-> 0, tunnelMu |-> 0,
                  call |-> [c \in Callers |-> IdleCall],
                  firstLocation |-> NilRef, firstSelected |-> NilRef,
                  locationWrites |-> 0, selectionWrites |-> 0,
                  lateLookups |-> 0, tunnelsStarted |-> 0]

\* what the steps of the callers leave alone
ThreadsUnchanged ==
    UNCHANGED <<tempDirExists, closeCalls, stream, last>>

\* the caller c goes to the step pc
Goto(c, pc) == [threads EXCEPT !.call[c].pc = pc]

\* the method of the caller c returns err, having seen saw
Return(th, c, err, saw) ==
    [th EXCEPT !.call[c].pc = "idle", !.call[c].err = err,
               !.call[c].saw = saw, !.call[c].local = NilRef,
               !.call[c].calls = @ + 1]

\* a slip: the mutex kept when the method returns an error
Released_NotOnError(th, c, m) ==
    IF th.call[c].err # Nil THEN th ELSE [th EXCEPT ![m] = 0]

\* the deferred Unlock of the mutex m, run on every return of the method
Released(th, c, m) == [th EXCEPT ![m] = 0]

\* a slip: a mutex that never makes its caller wait
MutexFree_Always(holder) == TRUE

\* sync.Mutex.Lock returns once nobody holds the mutex
MutexFree(holder) == holder = 0

\* the location the lookup of the caller c finds
LocationFoundBy(c) == [foundBy |-> c]

\* the probe service the selection of the caller c finds
SelectedBy(c) == [Endpoint |-> DefaultProbeServices[1], selectedBy |-> c]

\* MaybeLookupLocationContext looks the location up when there is none yet
LocationMissing(s) == s.location = NilRef

\* MaybeLookupBackendsContext selects when there is no selection yet
SelectionMissing(s) == s.selectedProbeService = NilRef

\* a caller starts a call of a method
Begin(c) ==
    /\ threads.call[c].pc = "idle"
    /\ threads.call[c].calls < MaxCalls
    /\ \E op \in ThreadOps, name \in Names :
            /\ op # "MaybeStartTunnel" => name = ""
            /\ threads' = [threads EXCEPT
                    !.call[c].op = op, !.call[c].pc = FirstPc(op),
                    !.call[c].name = name, !.call[c].err = Nil,
                    !.call[c].saw = NilRef]
    /\ UNCHANGED <<sess, tunnelStops, tryAllCount>>
    /\ ThreadsUnchanged

\* s.tunnelMu.Lock() of MaybeStartTunnel
LockTunnelMu(c) ==
    /\ threads.call[c].pc = "st_lock"
    /\ MutexFree(threads.tunnelMu)
    /\ threads' = [Goto(c, "st_check") EXCEPT !.tunnelMu = c]
    /\ UNCHANGED <<sess, tunnelStops, tryAllCount>>
    /\ ThreadsUnchanged

\* the three checks of MaybeStartTunnel before the start of the tunnel
CheckTunnel(c) ==
    LET name == threads.call[c].name IN
    /\ threads.call[c].pc = "st_check"
    /\ threads' =
          IF SameTunnelRunning(sess, name) \/ ProxyAndNoTunnelAsked(sess, name)
          THEN Goto(c, "st_unlock")
          ELSE IF AlreadyUsingProxy(sess)
               THEN [Goto(c, "st_unlock") EXCEPT
                        !.call[c].err = ErrAlreadyUsingProxy]
               ELSE Goto(c, "st_start")
    /\ UNCHANGED <<sess, tunnelStops, tryAllCount>>
    /\ ThreadsUnchanged

\* tunnel.Start, called with tunnelMu held
StartTunnel(c) ==
    /\ threads.call[c].pc = "st_start"
    /\ \E r \in TunnelStart("live", threads.call[c].name) :
            threads' =
              IF r.err # Nil
              THEN [Goto(c, "st_unlock") EXCEPT !.call[c].err = r.err]
              ELSE IF r.tunnel = NilRef
                   THEN Goto(c, "st_unlock")
                   ELSE [Goto(c, "st_store") EXCEPT !.call[c].local = r.tunnel]
    /\ UNCHANGED <<sess, tunnelStops, tryAllCount>>
    /\ ThreadsUnchanged

\* the three assignments that end MaybeStartTunnel
StoreStartedTunnel(c) ==
    /\ threads.call[c].pc = "st_store"
    /\ sess' = StoreTunnel(sess, threads.call[c].name, threads.call[c].local)
    /\ threads' = [Goto(c, "st_unlock") EXCEPT !.tunnelsStarted = @ + 1]
    /\ UNCHANGED <<tunnelStops, tryAllCount>>
    /\ ThreadsUnchanged

\* the deferred s.tunnelMu.Unlock() and the return of MaybeStartTunnel
UnlockTunnelMu(c) ==
    /\ threads.call[c].pc = "st_unlock"
    /\ threads' = Released(Return(threads, c, threads.call[c].err, sess.tunnel),
                           c, "tunnelMu")
    /\ UNCHANGED <<sess, tunnelStops, tryAllCount>>
    /\ ThreadsUnchanged

\* s.mu.Lock() of the lookups and of the accessors
LockMu(c) ==
    LET pc == threads.call[c].pc IN
    /\ Wants(pc) = "mu"
    /\ MutexFree(threads.mu)
    /\ threads' =
          [Goto(c, CASE pc = "ll_lock" -> "ll_check"
                     [] pc = "lb_lock" -> "lb_check"
                     [] pc = "cc_lock" -> "cc_read") EXCEPT !.mu = c]
    /\ UNCHANGED <<sess, tunnelStops, tryAllCount>>
    /\ ThreadsUnchanged

\* if s.location == nil, in MaybeLookupLocationContext
CheckLocation(c) ==
    /\ threads.call[c].pc = "ll_check"
    /\ threads' = IF LocationMissing(sess)
                  THEN Goto(c, "ll_lookup")
                  ELSE Goto(c, "ll_unlock")
    /\ UNCHANGED <<sess, tunnelStops, tryAllCount>>
    /\ ThreadsUnchanged

\* LookupLocationContext: reads s.proxyURL and runs the geolocate task
LookupLocation(c) ==
    /\ threads.call[c].pc = "ll_lookup"
    /\ \E ok \in BOOLEAN :
            threads' =
              [(IF ok
                THEN [Goto(c, "ll_store") EXCEPT
                         !.call[c].local = LocationFoundBy(c)]
                ELSE [Goto(c, "ll_unlock") EXCEPT
                         !.call[c].err = ErrLookupLocation])
               EXCEPT !.lateLookups =
                         IF threads.firstLocation # NilRef THEN @ + 1 ELSE @]
    /\ UNCHANGED <<sess, tunnelStops, tryAllCount>>
    /\ ThreadsUnchanged

\* s.location = location
StoreLocation(c) ==
    /\ threads.call[c].pc = "ll_store"
    /\ sess' = [sess EXCEPT !.location = threads.call[c].local]
    /\ threads' =
          [Goto(c, "ll_unlock") EXCEPT
              !.locationWrites = @ + 1,
              !.firstLocation =
                  IF @ = NilRef THEN threads.call[c].local ELSE @]
    /\ UNCHANGED <<tunnelStops, tryAllCount>>
    /\ ThreadsUnchanged

\* the deferred s.mu.Unlock() of MaybeLookupLocationContext: the method
\* returns, or NewProbeServicesClient goes on to read the selection
UnlockAfterLocation(c) ==
    LET call == threads.call[c] IN
    /\ call.pc = "ll_unlock"
    /\ threads' =
          IF call.op = "NewProbeServicesClient" /\ call.err = Nil
          THEN Released(Goto(c, "pc_client"), c, "mu")
          ELSE Released(Return(threads, c, call.err, sess.location), c, "mu")
    /\ UNCHANGED <<sess, tunnelStops, tryAllCount>>
    /\ ThreadsUnchanged

\* if s.selectedProbeService != nil, in MaybeLookupBackendsContext
CheckSelection(c) ==
    /\ threads.call[c].pc = "lb_check"
    /\ threads' = IF SelectionMissing(sess)
                  THEN Goto(c, "lb_tryall")
                  ELSE Goto(c, "lb_unlock")
    /\ UNCHANGED <<sess, tunnelStops, tryAllCount>>
    /\ ThreadsUnchanged

\* the counter, probeservices.TryAll and SelectBest, called with mu held
TryAllAndSelect(c) ==
    /\ threads.call[c].pc = "lb_tryall"
    /\ sess' = [sess EXCEPT !.queryProbeServicesCount = @ + 1]
    /\ tryAllCount' = tryAllCount + 1
    /\ \E ok \in BOOLEAN :
            threads' =
              [(IF ok
                THEN [Goto(c, "lb_store") EXCEPT
                         !.call[c].local = SelectedBy(c)]
                ELSE [Goto(c, "lb_unlock") EXCEPT
                         !.call[c].err = ErrAllProbeServicesFailed])
               EXCEPT !.lateLookups =
                         IF threads.firstSelected # NilRef THEN @ + 1 ELSE @]
    /\ UNCHANGED tunnelStops
    /\ ThreadsUnchanged

\* s.selectedProbeService and s.availableTestHelpers assigned
StoreSelected(c) ==
    /\ threads.call[c].pc = "lb_store"
    /\ sess' = [sess EXCEPT
                    !.selectedProbeService = threads.call[c].local,
                    !.availableTestHelpers = [by |-> c]]
    /\ threads' =
          [Goto(c, "lb_unlock") EXCEPT
              !.selectionWrites = @ + 1,
              !.firstSelected =
                  IF @ = NilRef THEN threads.call[c].local ELSE @]
    /\ UNCHANGED <<tunnelStops, tryAllCount>>
    /\ ThreadsUnchanged

\* the deferred s.mu.Unlock() of MaybeLookupBackendsContext: the method
\* returns, or NewProbeServicesClient goes on to the location
UnlockAfterSelection(c) ==
    LET call == threads.call[c] IN
    /\ call.pc = "lb_unlock"
    /\ threads' =
          IF call.op = "NewProbeServicesClient" /\ call.err = Nil
          THEN Released(Goto(c, "ll_lock"), c, "mu")
          ELSE Released(Return(threads, c, call.err, sess.selectedProbeService),
                        c, "mu")
    /\ UNCHANGED <<sess, tunnelStops, tryAllCount>>
    /\ ThreadsUnchanged

\* NewProbeServicesClient reads s.selectedProbeService for the new client
ReadSelection(c) ==
    /\ threads.call[c].pc = "pc_client"
    /\ threads' = Return(threads, c, Nil, sess.selectedProbeService)
    /\ UNCHANGED <<sess, tunnelStops, tryAllCount>>
    /\ ThreadsUnchanged

\* Session.ProxyURL: return s.proxyURL
ReadProxyURL(c) ==
    /\ threads.call[c].pc = "px_read"
    /\ threads' = Return(threads, c, Nil, [url |-> sess.proxyURL])
    /\ UNCHANGED <<sess, tunnelStops, tryAllCount>>
    /\ ThreadsUnchanged

\* Session.Close: if s.tunnel != nil, s.tunnel.Stop()
CloseReadsTunnel(c) ==
    /\ threads.call[c].pc = "cl_read"
    /\ tunnelStops' = tunnelStops + CloseStops(sess)
    /\ threads' = Return(threads, c, Nil, sess.tunnel)
    /\ UNCHANGED <<sess, tryAllCount>>
    /\ ThreadsUnchanged

\* Session.ProbeCC between its Lock and its deferred Unlock
ReadLocation(c) ==
    /\ threads.call[c].pc = "cc_read"
    /\ threads' = [Goto(c, "cc_unlock") EXCEPT !.call[c].local = sess.location]
    /\ UNCHANGED <<sess, tunnelStops, tryAllCount>>
    /\ ThreadsUnchanged

\* the deferred s.mu.Unlock() of Session.ProbeCC
UnlockAfterRead(c) ==
    /\ threads.call[c].pc = "cc_unlock"
    /\ threads' = Released(Return(threads, c, Nil, threads.call[c].local),
                           c, "mu")
    /\ UNCHANGED <<sess, tunnelStops, tryAllCount>>
    /\ ThreadsUnchanged

\* one step of one caller
NextThreads ==
    \E c \in Callers :
        \/ Begin(c)
        \/ LockTunnelMu(c)
        \/ CheckTunnel(c)
        \/ StartTunnel(c)
        \/ StoreStartedTunnel(c)
        \/ UnlockTunnelMu(c)
        \/ LockMu(c)
        \/ CheckLocation(c)
        \/ LookupLocation(c)
        \/ StoreLocation(c)
        \/ UnlockAfterLocation(c)
        \/ CheckSelection(c)
        \/ TryAllAndSelect(c)
        \/ StoreSelected(c)
        \/ UnlockAfterSelection(c)
        \/ ReadSelection(c)
        \/ ReadProxyURL(c)
        \/ CloseReadsTunnel(c)
        \/ ReadLocation(c)
        \/ UnlockAfterRead(c)


SpecThreads == InitThreads /\ [][NextThreads]_vars

\* C23: whatever the interleaving of the callers, the location and the
\* selected probe service are written at most once each, no lookup and no
\* selection starts after one has succeeded, and every MaybeLookupLocation
\* or MaybeLookupBackends that returns nil has seen the first writer's value.
C23_SetOnce ==
    /\ threads.locationWrites <= 1
    /\ threads.selectionWrites <= 1
    /\ threads.lateLookups = 0
    /\ \A c \in Callers :
          (/\ threads.call[c].pc = "idle"
           /\ threads.call[c].calls > 0
           /\ threads.call[c].err = Nil)
          => /\ threads.call[c].op = "MaybeLookupLocation"
                => /\ threads.firstLocation # NilRef
                   /\ threads.call[c].saw = threads.firstLocation
                   /\ sess.location = threads.firstLocation
             /\ threads.call[c].op = "MaybeLookupBackends"
                => /\ threads.firstSelected # NilRef
                   /\ threads.call[c].saw = threads.firstSelected
                   /\ sess.selectedProbeService = threads.firstSelected

C23_Witness ==
    /\ threads.call[1].pc = "idle"
    /\ threads.call[1].op = "MaybeLookupLocation"
    /\ threads.call[1].err = Nil
    /\ threads.call[1].saw = LocationFoundBy(2)
    /\ threads.call[2].op = "MaybeLookupBackends"
    /\ threads.call[2].pc = "lb_lock"
    /\ threads.firstSelected = SelectedBy(1)
    /\ threads.call[1].calls = 2

----------------------------------------------------------------------------
(* The channel of a tactics stream: the policy's goroutine sends into a     *)
(* bounded channel, the caller receives from it and may cancel the context  *)

\* the largest capacity of the channel of a tactics stream
MaxCapacity == 16

InitChannel ==
    /\ NoSession
    /\ last = NilRef
    /\ \E cap \in 1..MaxCapacity, todo \in 0..MaxTactics :
            stream = [producer |-> "sending", todo |-> todo, cap |-> cap,
                      buffered |-> 0, closed |-> FALSE, cancelled |-> FALSE,
                      consumer |-> "reading", received |-> 0]

\* a slip: a send that does not look at the context
CancelObserved_Never(st) == FALSE

\* the producer's send selects on ctx.Done() too
CancelObserved(st) == st.cancelled

\* the producer sends its next tactic: there is room in the channel
SendTactic ==
    /\ stream.producer = "sending"
    /\ stream.todo > 0
    /\ stream.buffered < stream.cap
    /\ stream' = [stream EXCEPT !.todo = @ - 1, !.buffered = @ + 1]
    /\ UNCHANGED <<sess, tempDirExists, tunnelStops, closeCalls, tryAllCount,
                   threads, last>>

\* the producer, about to send, sees the context cancelled: it closes the
\* channel and exits
ObserveCancel ==
    /\ stream.producer = "sending"
    /\ stream.todo > 0
    /\ CancelObserved(stream)
    /\ stream' = [stream EXCEPT !.producer = "exited", !.closed = TRUE]
    /\ UNCHANGED <<sess, tempDirExists, tunnelStops, closeCalls, tryAllCount,
                   threads, last>>

\* the producer has sent its last tactic: it closes the channel and exits
CloseOut ==
    /\ stream.producer = "sending"
    /\ stream.todo = 0
    /\ stream' = [stream EXCEPT !.producer = "exited", !.closed = TRUE]
    /\ UNCHANGED <<sess, tempDirExists, tunnelStops, closeCalls, tryAllCount,
                   threads, last>>

\* the consumer's loop receives a tactic
ReceiveTactic ==
    /\ stream.consumer = "reading"
    /\ stream.buffered > 0
    /\ stream' = [stream EXCEPT !.buffered = @ - 1, !.received = @ + 1]
    /\ UNCHANGED <<sess, tempDirExists, tunnelStops, closeCalls, tryAllCount,
                   threads, last>>

\* the consumer's loop ends: the channel is closed and empty
ReceiveClosed ==
    /\ stream.consumer = "reading"
    /\ stream.buffered = 0
    /\ stream.closed
    /\ stream' = [stream EXCEPT !.consumer = "done"]
    /\ UNCHANGED <<sess, tempDirExists, tunnelStops, closeCalls, tryAllCount,
                   threads, last>>

\* the consumer cancels the context
CancelContext ==
    /\ stream.consumer = "reading"
    /\ ~stream.cancelled
    /\ stream' = [stream EXCEPT !.cancelled = TRUE]
    /\ UNCHANGED <<sess, tempDirExists, tunnelStops, closeCalls, tryAllCount,
                   threads, last>>

\* the consumer, having cancelled the context, stops reading
StopReading ==
    /\ stream.consumer = "reading"
    /\ stream.cancelled
    /\ stream' = [stream EXCEPT !.consumer = "stopped"]
    /\ UNCHANGED <<sess, tempDirExists, tunnelStops, closeCalls, tryAllCount,
                   threads, last>>

NextChannel ==
    \/ SendTactic
    \/ ObserveCancel
    \/ CloseOut
    \/ ReceiveTactic
    \/ ReceiveClosed
    \/ CancelContext
    \/ StopReading

\* the producer's goroutine runs whenever it can take a step, and a consumer
\* that has not stopped reading goes on receiving
SpecChannel ==
    /\ InitChannel
    /\ [][NextChannel]_vars
    /\ WF_vars(SendTactic)
    /\ WF_vars(ObserveCancel)
    /\ WF_vars(CloseOut)
    /\ WF_vars(ReceiveTactic)
    /\ WF_vars(ReceiveClosed)

\* C24: a tactics stream terminates: the producer ends up having closed the
\* channel and exited, whether its work finished or the consumer cancelled
\* the context and stopped reading, and a closed channel has no producer left.
C24_StreamTerminates ==
    /\ [](stream.closed <=> stream.producer = "exited")
    /\ <>[](stream.closed /\ stream.producer = "exited")

C24_Witness ==
    /\ stream.cancelled
    /\ stream.consumer = "stopped"
    /\ stream.buffered = stream.cap
    /\ stream.todo > 0
    /\ stream.producer = "exited"
    /\ stream.closed

----------------------------------------------------------------------------
(* The two mutexes *)

\* C25: every caller about to read or write proxyURL, tunnel or tunnelName
\* holds tunnelMu, every caller about to read or write location,
\* selectedProbeService or availableTestHelpers holds mu, and no two callers
\* are about to access the same field with one of them writing it.
C25_GuardedAccess ==
    /\ \A c \in Callers :
          \A a \in Access(threads.call[c].pc) : Guard(a.field) \in Held(c)
    /\ \A c, d \in Callers :
          c # d =>
            \A a \in Access(threads.call[c].pc),
               b \in Access(threads.call[d].pc) :
                a.field = b.field => ~(a.w \/ b.w)

\* C26: the callers never deadlock on mu and tunnelMu: no caller waits for
\* tunnelMu while holding mu, no caller waits for a mutex it holds, a caller
\* whose method has returned, with or without error, holds no mutex, and no
\* set of callers wait for mutexes held by one another.
C26_NoDeadlock ==
    /\ \A c \in Callers :
          /\ Wants(threads.call[c].pc) = "tunnelMu" => "mu" \notin Held(c)
          /\ Wants(threads.call[c].pc) \notin Held(c)
          /\ threads.call[c].pc = "idle" => Held(c) = {}
    /\ \A D \in SUBSET Callers :
          D # {} =>
            \E c \in D :
                \/ Wants(threads.call[c].pc) = "none"
                \/ threads[Wants(threads.call[c].pc)] \notin D

C26_Witness ==
    /\ threads.call[1].pc = "idle"
    /\ threads.call[1].op = "MaybeStartTunnel"
    /\ threads.call[1].err = ErrTunnelStart
    /\ threads.tunnelMu = 2
    /\ threads.call[2].pc = "st_start"
    /\ threads.call[2].calls = 1
    /\ threads.mu = 0

----------------------------------------------------------------------------
(* The tunnel of the session *)

\* C27: the session's tunnel, tunnel name and proxy URL agree in every state:
\* with a tunnel there is its name and the proxy URL is its SOCKS5 URL,
\* without a tunnel the name is empty; and a session starts at most one
\* tunnel: a call stores a tunnel only when there was none, and never
\* replaces or drops the one there is.
C27_TunnelTriple ==
    /\ sess.tunnel # NilRef
       => /\ sess.tunnelName # ""
          /\ sess.tunnelName = sess.tunnel.name
          /\ sess.proxyURL = SOCKS5ProxyURL(sess.tunnel)
    /\ sess.tunnel = NilRef => sess.tunnelName = ""
    /\ last.op # "NewSession"
       => /\ last.pre.tunnel # NilRef => sess.tunnel = last.pre.tunnel
          /\ sess.tunnel # last.pre.tunnel
             => /\ last.op = "MaybeStartTunnel"
                /\ last.fx.starts = 1
                /\ last.err = Nil

C27_Witness ==
    /\ last.op = "MaybeStartTunnel"
    /\ last.pre.tunnel = [name |-> "tor"]
    /\ last.name = "psiphon"
    /\ last.err = ErrAlreadyUsingProxy
    /\ last.fx.starts = 0
    /\ sess.tunnelName = "tor"
    /\ sess.proxyURL = "socks5://127.0.0.1/tor"

====
